---- MODULE Spec2Model ----
(***************************************************************************)
(* The identity middleware of the express integration: identity(options)   *)
(* returns a request handler that walks the authentication handlers of     *)
(* options.authenticationHandlers, builds the request's Identity object    *)
(* and continues the pipeline.  Handlers, observers and later pipeline     *)
(* stages are the environment: they call the Verify Result callbacks, the  *)
(* responder capabilities and the Identity's methods in any order.         *)
(***************************************************************************)
EXTENDS Integers, Sequences, FiniteSets

(* ---------------------------------------------------------------- values *)

\* JavaScript's undefined.
NONE == "undefined"

\* The falsy values a caller can pass where a value is expected.
Falsy == {NONE, ""}

Truthy(v) == v \notin Falsy

\* createError(401), createError(403)
E401 == "401"

E403 == "403"

\* The faults the middleware throws.
AlreadyDone == "Authentication processing is already done."

UserRequired == "user required"

AuthRequired == "auth required"

InvalidScheme == "Invalid scheme, no authentication handler found."

AmbiguousScheme == "Multiple authentication handlers registered and no default scheme defined."

(* ---------------------------------------------------------------- bounds *)

\* Longest list of registered authentication handlers.
MaxHandlers == 2

\* Most runs of the walk's completion routine followed per request.
MaxDone == 2

(* ---------------------------------------------------------------- inputs *)

Requests == {"r1", "r2"}

Users == {"u1", "u2"}

Auths == {"a1"}

UserArgs == Users \cup {NONE}

AuthArgs == Auths \cup {NONE}

HandlerErrors == {"e1"}

\* What a handler may pass to error(err), send(err): an error or nothing.
ErrArgs == HandlerErrors \cup {NONE}

Messages == {NONE, "bad token"}

Parameters == {NONE, "p1"}

\* Scheme names in use; "X" is a scheme no handler is registered for.
SchemeArgs == {NONE, "A", "B", "X"}

\* The authentication handlers the application may register: a scheme and
\* the optional capabilities the handler object has.
HandlerKinds ==
    { [scheme |-> "A", challenge |-> TRUE,  deny |-> TRUE,  onLogin |-> FALSE, onLogout |-> TRUE],
      [scheme |-> "B", challenge |-> TRUE,  deny |-> FALSE, onLogin |-> TRUE,  onLogout |-> FALSE],
      [scheme |-> "B", challenge |-> FALSE, deny |-> TRUE,  onLogin |-> TRUE,  onLogout |-> FALSE] }

HandlerLists == UNION { [1..n -> HandlerKinds] : n \in 0..MaxHandlers }

ObserverBoth == [onLogin |-> TRUE, onLogout |-> TRUE]

ObserverLogin == [onLogin |-> TRUE, onLogout |-> FALSE]

ObserverLogout == [onLogin |-> FALSE, onLogout |-> TRUE]

\* options.authenticationObservers (absent, or a list) and
\* options.defaultScheme (absent, or a scheme).  No code path reads both, so
\* the two vary together.
OtherOptions ==
    { [authenticationObservers |-> [present |-> FALSE, list |-> << >>],
       defaultScheme |-> NONE],
      [authenticationObservers |->
           [present |-> TRUE, list |-> <<ObserverBoth, ObserverLogin, ObserverLogout>>],
       defaultScheme |-> "B"] }

(* ----------------------------------------------------------------- state *)

VARIABLES
    options,     \* the IIdentityOptions the middleware was built with
    admitted,    \* the requests that reach the middleware
    started,     \* started[r]: the middleware has been invoked for r
    identity,    \* identity[r]: scheme, user, auth of r's Identity object
    isDone,      \* isDone[r]: the closure's flag
    index,       \* index[r]: the closure's handler index (0-based)
    attached,    \* attached[r]: times done ran (identity attached, next called)
    authLog,     \* authLog[r]: the handlers whose authenticate was invoked
    responders,  \* responders[r]: responder objects handed to handlers
    outcome      \* what the most recent call did (fault, capability invoked,
                 \* continuation of the pipeline)

vars == <<options, admitted, started, identity, isDone, index, attached,
          authLog, responders, outcome>>

handlers == options.authenticationHandlers

length == Len(handlers)

\* handlers[i] of the source, i counted from 0.
HandlerAt(i) == handlers[i + 1]

NoIdentity == [scheme |-> NONE, user |-> NONE, auth |-> NONE]

\* A getter that reports every Identity as authenticated.
isAuthenticated_Always(id) == TRUE

isAuthenticated(id) == id.user # NONE

\* What r's closure holds: the state a call starts from.
Closure(r) ==
    [identity |-> identity[r], isDone |-> isDone[r], index |-> index[r],
     attached |-> attached[r]]

\* op: the call; by: the handler that made it; a1, a2: its arguments; pre:
\* the closure it started from; fault: what it threw; invoked/target: the
\* handler capability it invoked, with parameters and message; next/src/err:
\* the continuation it called ("done" or the pipeline's "next"), from where,
\* and with which argument; notified: the lifecycle callbacks it invoked.
NoOutcome ==
    [req |-> NONE, op |-> NONE, by |-> -1, a1 |-> NONE, a2 |-> NONE,
     pre |-> [identity |-> NoIdentity, isDone |-> FALSE, index |-> 0, attached |-> 0],
     fault |-> NONE, invoked |-> NONE,
     target |-> -1, parameters |-> NONE, message |-> NONE,
     next |-> NONE, src |-> NONE, err |-> NONE, notified |-> << >>]

Outcome(r, op, by, a1, a2) ==
    [NoOutcome EXCEPT !.req = r, !.op = op, !.by = by, !.a1 = a1, !.a2 = a2,
                      !.pre = Closure(r)]

Fault(o, what) == [o EXCEPT !.fault = what]

\* if (isDone) { throw new Error("Authentication processing is already
\* done."); }: thrown before the callback looks at its arguments.
AlreadyDoneFault(r, op) == Fault(Outcome(r, op, -1, NONE, NONE), AlreadyDone)

Invoked(o, cap, h) == [o EXCEPT !.invoked = cap, !.target = h]

Called(o, cont, src, err) == [o EXCEPT !.next = cont, !.src = src, !.err = err]

InitOptions ==
    \E hs \in HandlerLists, other \in OtherOptions :
        options = [authenticationHandlers |-> hs,
                   authenticationObservers |-> other.authenticationObservers,
                   defaultScheme |-> other.defaultScheme]

InitRequests ==
    /\ started = [r \in Requests |-> FALSE]
    /\ identity = [r \in Requests |-> NoIdentity]
    /\ isDone = [r \in Requests |-> FALSE]
    /\ index = [r \in Requests |-> 0]
    /\ attached = [r \in Requests |-> 0]
    /\ authLog = [r \in Requests |-> << >>]
    /\ responders = [r \in Requests |-> {}]
    /\ outcome = NoOutcome

Init ==
    /\ InitOptions
    /\ admitted = {"r1"}
    /\ InitRequests

(* ------------------------------------------------------------ procedures *)

\* A completion routine that continues the pipeline without the error.
\* A done that continues the pipeline without setting the flag.
done_LeavesPending(r, o, src, err) ==
    /\ attached[r] < MaxDone
    /\ attached' = [attached EXCEPT ![r] = @ + 1]
    /\ outcome' = Called(o, "done", src, err)
    /\ UNCHANGED isDone

\* A done whose flag is one variable for all requests instead of one per
\* middleware invocation.
done_SharedFlag(r, o, src, err) ==
    /\ attached[r] < MaxDone
    /\ isDone' = [q \in Requests |-> TRUE]
    /\ attached' = [attached EXCEPT ![r] = @ + 1]
    /\ outcome' = Called(o, "done", src, err)

done_DropsError(r, o, src, err) ==
    /\ attached[r] < MaxDone
    /\ isDone' = [isDone EXCEPT ![r] = TRUE]
    /\ attached' = [attached EXCEPT ![r] = @ + 1]
    /\ outcome' = Called(o, "done", src, NONE)

\* done(err): isDone = true; req.context.identity = identity; next(err).
\* o is the calling operation's outcome so far.
done(r, o, src, err) ==
    /\ attached[r] < MaxDone
    /\ isDone' = [isDone EXCEPT ![r] = TRUE]
    /\ attached' = [attached EXCEPT ![r] = @ + 1]
    /\ outcome' = Called(o, "done", src, err)

\* next(err) of the pipeline.
next(r, o, src, err) ==
    /\ outcome' = Called(o, "next", src, err)
    /\ UNCHANGED <<isDone, attached>>

\* The next argument of challenge and deny: the walk's done or the
\* pipeline's next.
\* A continuation that is the walk's done whoever started the challenge.
Continue_AlwaysDone(r, o, cont, src, err) == done(r, o, src, err)

Continue(r, o, cont, src, err) ==
    IF cont = "done" THEN done(r, o, src, err) ELSE next(r, o, src, err)

\* options.authenticationHandlers[i].authenticate(req, result)
\* An authenticate step that starts again at the first handler.
Authenticate_Restarts(r, i) ==
    authLog' = [authLog EXCEPT ![r] = Append(@, 0)]

Authenticate(r, i) ==
    authLog' = [authLog EXCEPT ![r] = Append(@, i)]

\* The handlers that hold a reference to r's Verify Result.
Holders(r) == { authLog[r][k] : k \in DOMAIN authLog[r] }

RECURSIVE GetHandlerFrom(_, _, _)
GetHandlerFrom(hs, scheme, i) ==
    IF i > Len(hs) THEN -1
    ELSE IF hs[i].scheme = scheme THEN i - 1
    ELSE GetHandlerFrom(hs, scheme, i + 1)

\* A lookup that falls back to the first handler when none matches.
getHandler_FallsBackToFirst(hs, scheme) ==
    IF GetHandlerFrom(hs, scheme, 1) = -1 /\ Len(hs) > 0
      THEN 0
      ELSE GetHandlerFrom(hs, scheme, 1)

\* getHandler(handlers, scheme): the 0-based position of the first handler
\* of that scheme, -1 for the source's undefined.
getHandler(hs, scheme) == GetHandlerFrom(hs, scheme, 1)

\* The responder challenge builds: closures over res and next.
ChallengeResponder(cont) == [kind |-> "challenge", cont |-> cont]

\* The responder deny builds.
DenyResponder(cont) == [kind |-> "deny", cont |-> cont]

\* A capability test that looks at the wrong capability.
HasChallenge_TestsDeny(h) == HandlerAt(h).deny

\* if (handler.challenge)
HasChallenge(h) == HandlerAt(h).challenge

\* if (handler.deny)
\* A capability test that looks at the wrong capability.
HasDeny_TestsChallenge(h) == HandlerAt(h).challenge

HasDeny(h) == HandlerAt(h).deny

\* challenge(handler, parameters, message, req, res, next)
challenge(r, o, h, parameters, message, cont) ==
    IF HasChallenge(h)
      THEN /\ responders' = [responders EXCEPT ![r] = @ \cup {ChallengeResponder(cont)}]
           /\ outcome' = [Invoked(o, "challenge", h) EXCEPT
                            !.parameters = parameters, !.message = message]
           /\ UNCHANGED <<isDone, attached>>
      ELSE /\ Continue(r, [o EXCEPT !.target = h], cont, "challenge", E401)
           /\ UNCHANGED responders

\* deny(handler, req, res, next)
deny(r, o, h, cont) ==
    IF HasDeny(h)
      THEN /\ responders' = [responders EXCEPT ![r] = @ \cup {DenyResponder(cont)}]
           /\ outcome' = Invoked(o, "deny", h)
           /\ UNCHANGED <<isDone, attached>>
      ELSE /\ Continue(r, [o EXCEPT !.target = h], cont, "deny", E403)
           /\ UNCHANGED responders

RECURSIVE OnFrom(_, _, _, _, _, _)
OnFrom(list, i, cap, kind, user, auth) ==
    IF i > Len(list) THEN << >>
    ELSE (IF list[i][cap]
            THEN << [kind |-> kind, pos |-> i - 1, user |-> user, auth |-> auth] >>
            ELSE << >>)
         \o OnFrom(list, i + 1, cap, kind, user, auth)

\* on(observers, getCallback, invoke): the callbacks invoked, in order.
\* A fan-out that notifies a list's listeners last first.
on_LastFirst(present, list, cap, kind, user, auth) ==
    IF present
      THEN LET n == OnFrom(list, 1, cap, kind, user, auth)
           IN  [k \in 1..Len(n) |-> n[Len(n) + 1 - k]]
      ELSE << >>

on(present, list, cap, kind, user, auth) ==
    IF present THEN OnFrom(list, 1, cap, kind, user, auth) ELSE << >>

(* -------------------------------------------------------------- the walk *)

\* A test that starts the walk whatever the list holds.
HasHandlers_Always == TRUE

\* if (options.authenticationHandlers.length)
HasHandlers == length # 0

\* The request handler returned by identity(options), up to its first call
\* into a handler.
Middleware(r) ==
    /\ r \in admitted
    /\ ~started[r]
    /\ started' = [started EXCEPT ![r] = TRUE]
    /\ IF HasHandlers
         THEN /\ Authenticate(r, index[r])
              /\ outcome' = Invoked(Outcome(r, "request", -1, NONE, NONE), "authenticate", index[r])
              /\ UNCHANGED <<isDone, attached>>
         ELSE /\ done(r, Outcome(r, "request", -1, NONE, NONE), "empty", NONE)
              /\ UNCHANGED authLog
    /\ UNCHANGED <<options, admitted, identity, index, responders>>

\* A guard that error lacks.
DoneGuard_NotInError(r, op) == isDone[r] /\ op # "error"

\* if (isDone) { throw ... } at the top of each Verify Result callback.
DoneGuard(r, op) == isDone[r]

\* A success that records the first handler's scheme.
SuccessScheme_First(r) == HandlerAt(0).scheme

\* The scheme success records.
SuccessScheme(r) == HandlerAt(index[r]).scheme

\* An argument check that forgets auth.
SuccessFault_UserOnly(user, auth) ==
    IF ~Truthy(user) THEN UserRequired ELSE NONE

\* if (!user) { throw ... } if (!auth) { throw ... }: the fault, NONE for none.
SuccessFault(user, auth) ==
    IF ~Truthy(user) THEN UserRequired
    ELSE IF ~Truthy(auth) THEN AuthRequired
    ELSE NONE

\* result.success(user, auth), called by handler `by`.
Success(r, by, user, auth) ==
    /\ by \in Holders(r)
    /\ IF DoneGuard(r, "success")
         THEN /\ outcome' = AlreadyDoneFault(r, "success")
              /\ UNCHANGED <<identity, isDone, attached>>
         ELSE IF SuccessFault(user, auth) # NONE
         THEN /\ outcome' = Fault(Outcome(r, "success", by, user, auth),
                                    SuccessFault(user, auth))
              /\ UNCHANGED <<identity, isDone, attached>>
         ELSE /\ identity' = [identity EXCEPT ![r] =
                                [scheme |-> SuccessScheme(r), user |-> user, auth |-> auth]]
              /\ done(r, Outcome(r, "success", by, user, auth), "success", NONE)
    /\ UNCHANGED <<options, admitted, started, index, authLog, responders>>

\* result.fail(message), called by handler `by`.
Fail(r, by, message) ==
    /\ by \in Holders(r)
    /\ IF DoneGuard(r, "fail")
         THEN /\ outcome' = AlreadyDoneFault(r, "fail")
              /\ UNCHANGED <<isDone, attached, responders>>
         ELSE challenge(r, Outcome(r, "fail", by, message, NONE), index[r], NONE, message, "done")
    /\ UNCHANGED <<options, admitted, started, identity, index, authLog>>

\* result.error(err), called by handler `by`.
Error(r, by, err) ==
    /\ by \in Holders(r)
    /\ IF DoneGuard(r, "error")
         THEN /\ outcome' = AlreadyDoneFault(r, "error")
              /\ UNCHANGED <<isDone, attached>>
         ELSE done(r, Outcome(r, "error", by, err, NONE), "error", err)
    /\ UNCHANGED <<options, admitted, started, identity, index, authLog, responders>>

\* An end-of-list test made before the index is advanced.
Exhausted_BeforeIncrement(r) == length = index[r]

\* index++; if (options.authenticationHandlers.length === index)
Exhausted(r) == length = index[r] + 1

\* result.skip(), called by handler `by`.
Skip(r, by) ==
    /\ by \in Holders(r)
    /\ IF DoneGuard(r, "skip")
         THEN /\ outcome' = AlreadyDoneFault(r, "skip")
              /\ UNCHANGED <<index, isDone, attached, authLog>>
         ELSE /\ index' = [index EXCEPT ![r] = @ + 1]
              /\ IF Exhausted(r)
                   THEN /\ done(r, Outcome(r, "skip", by, NONE, NONE), "skip", NONE)
                        /\ UNCHANGED authLog
                   ELSE /\ Authenticate(r, index[r] + 1)
                        /\ outcome' = Invoked(Outcome(r, "skip", by, NONE, NONE),
                                              "authenticate", index[r] + 1)
                        /\ UNCHANGED <<isDone, attached>>
    /\ UNCHANGED <<options, admitted, started, identity, responders>>

(* -------------------------------------------------------- the responders *)

\* send: err => next(err), called by a handler that was given `resp`.
ResponderSend(r, resp, err) ==
    /\ resp \in responders[r]
    /\ Continue(r, Outcome(r, "responder.send", -1, err, NONE), resp.cont, resp.kind, err)
    /\ UNCHANGED <<options, admitted, started, identity, index, authLog, responders>>

\* error: err => next(err)
ResponderError(r, resp, err) ==
    /\ resp \in responders[r]
    /\ Continue(r, Outcome(r, "responder.error", -1, err, NONE), resp.cont, resp.kind, err)
    /\ UNCHANGED <<options, admitted, started, identity, index, authLog, responders>>

\* redirect: url => res.redirect(url)
ResponderRedirect(r, resp) ==
    /\ resp \in responders[r]
    /\ outcome' = [Outcome(r, "responder.redirect", -1, NONE, NONE) EXCEPT !.src = resp.kind]
    /\ UNCHANGED <<options, admitted, started, identity, isDone, index, attached,
                   authLog, responders>>

(* ------------------------------------------------ the Identity's methods *)

\* A resolution that lets the configured default win over the option.
ChallengeScheme_DefaultFirst(optScheme) ==
    IF Truthy(options.defaultScheme) THEN options.defaultScheme ELSE optScheme

\* let scheme = challengeOptions && challengeOptions.scheme
\*     ? challengeOptions.scheme : options.defaultScheme
ChallengeScheme(optScheme) ==
    IF Truthy(optScheme) THEN optScheme ELSE options.defaultScheme

\* identity.challenge(challengeOptions), called by a later pipeline stage.
IdentityChallenge(r, optScheme, parameters) ==
    /\ attached[r] > 0
    /\ LET scheme == ChallengeScheme(optScheme)
           h == getHandler(handlers, scheme)
           o == Outcome(r, "identity.challenge", -1, optScheme, parameters)
       IN  IF Truthy(scheme)
             THEN IF h = -1
                    THEN /\ outcome' = Fault(o, InvalidScheme)
                         /\ UNCHANGED <<isDone, attached, responders>>
                    ELSE challenge(r, o, h, parameters, NONE, "next")
             ELSE IF length = 1
                    THEN challenge(r, o, 0, parameters, NONE, "next")
                    ELSE /\ outcome' = Fault(o, AmbiguousScheme)
                         /\ UNCHANGED <<isDone, attached, responders>>
    /\ UNCHANGED <<options, admitted, started, identity, index, authLog>>

\* identity.deny()
IdentityDeny(r) ==
    /\ attached[r] > 0
    /\ LET h == getHandler(handlers, identity[r].scheme)
           o == Outcome(r, "identity.deny", -1, NONE, NONE)
       IN  IF h # -1
             THEN deny(r, o, h, "next")
             ELSE /\ next(r, o, "deny", E403)
                  /\ UNCHANGED responders
    /\ UNCHANGED <<options, admitted, started, identity, index, authLog>>

\* identity.login(user, auth)
IdentityLogin(r, user, auth) ==
    /\ attached[r] > 0
    /\ outcome' = [Outcome(r, "identity.login", -1, user, auth) EXCEPT !.notified =
                     on(TRUE, handlers, "onLogin", "handler", user, auth)
                     \o on(options.authenticationObservers.present,
                           options.authenticationObservers.list,
                           "onLogin", "observer", user, auth)]
    /\ UNCHANGED <<options, admitted, started, identity, isDone, index, attached,
                   authLog, responders>>

\* identity.logout()
IdentityLogout(r) ==
    /\ attached[r] > 0
    /\ IF isAuthenticated(identity[r])
         THEN /\ outcome' = [Outcome(r, "identity.logout", -1, NONE, NONE) EXCEPT !.notified =
                               on(TRUE, handlers, "onLogout", "handler",
                                  identity[r].user, identity[r].auth)
                               \o on(options.authenticationObservers.present,
                                     options.authenticationObservers.list,
                                     "onLogout", "observer",
                                     identity[r].user, identity[r].auth)]
              /\ identity' = [identity EXCEPT ![r] = NoIdentity]
         ELSE /\ outcome' = Outcome(r, "identity.logout", -1, NONE, NONE)
              /\ UNCHANGED identity
    /\ UNCHANGED <<options, admitted, started, isDone, index, attached,
                   authLog, responders>>

(* --------------------------------------------------------- specification *)

Positions == 0..(MaxHandlers - 1)

Next ==
    \/ \E r \in Requests : Middleware(r)
    \/ \E r \in Requests, by \in Positions, user \in UserArgs, auth \in AuthArgs :
           Success(r, by, user, auth)
    \/ \E r \in Requests, by \in Positions, message \in Messages : Fail(r, by, message)
    \/ \E r \in Requests, by \in Positions, err \in ErrArgs : Error(r, by, err)
    \/ \E r \in Requests, by \in Positions : Skip(r, by)
    \/ \E r \in Requests : \E resp \in responders[r], err \in ErrArgs : ResponderSend(r, resp, err)
    \/ \E r \in Requests : \E resp \in responders[r], err \in ErrArgs : ResponderError(r, resp, err)
    \/ \E r \in Requests : \E resp \in responders[r] : ResponderRedirect(r, resp)
    \/ \E r \in Requests, optScheme \in SchemeArgs, parameters \in Parameters :
           IdentityChallenge(r, optScheme, parameters)
    \/ \E r \in Requests : IdentityDeny(r)
    \/ \E r \in Requests, user \in Users, auth \in Auths : IdentityLogin(r, user, auth)
    \/ \E r \in Requests : IdentityLogout(r)

Spec == Init /\ [][Next]_vars

\* Two requests in flight through one middleware: both are admitted, and
\* their handlers' callbacks interleave freely. The middleware is configured
\* with one handler that can challenge, no observers and no default scheme.
InitConcurrent ==
    /\ options = [authenticationHandlers |->
                      << [scheme |-> "B", challenge |-> TRUE, deny |-> FALSE,
                          onLogin |-> TRUE, onLogout |-> FALSE] >>,
                  authenticationObservers |-> [present |-> FALSE, list |-> << >>],
                  defaultScheme |-> NONE]
    /\ admitted = Requests
    /\ InitRequests

SpecConcurrent == InitConcurrent /\ [][Next]_vars

\* Handlers that keep to what the middleware expects of them: each handler
\* whose authenticate was invoked invokes one of the result functions, once,
\* while it is the current handler.  The current handler of r still owes its
\* answer when the walk is not done and no challenge that fail started is
\* waiting for its responder.
Unanswered(r) ==
    /\ started[r]
    /\ ~isDone[r]
    /\ ChallengeResponder("done") \notin responders[r]

AnswerSuccess(r, user, auth) == Unanswered(r) /\ Success(r, index[r], user, auth)

AnswerFail(r, message) == Unanswered(r) /\ Fail(r, index[r], message)

AnswerError(r, err) == Unanswered(r) /\ Error(r, index[r], err)

AnswerSkip(r) == Unanswered(r) /\ Skip(r, index[r])

Answer ==
    \E r \in Requests :
        \/ \E user \in Users, auth \in Auths : AnswerSuccess(r, user, auth)
        \/ \E message \in Messages : AnswerFail(r, message)
        \/ \E err \in ErrArgs : AnswerError(r, err)
        \/ AnswerSkip(r)

\* The walk of a request up to the hand-over to the next stage: the
\* handlers answer as expected, and a handler's challenge capability uses
\* its responder as it likes, or not at all.
NextWalk ==
    \/ \E r \in Requests : Middleware(r)
    \/ \E r \in Requests, user \in Users, auth \in Auths : AnswerSuccess(r, user, auth)
    \/ \E r \in Requests, message \in Messages : AnswerFail(r, message)
    \/ \E r \in Requests, err \in ErrArgs : AnswerError(r, err)
    \/ \E r \in Requests : AnswerSkip(r)
    \/ \E r \in Requests : \E resp \in responders[r], err \in ErrArgs : ResponderSend(r, resp, err)
    \/ \E r \in Requests : \E resp \in responders[r], err \in ErrArgs : ResponderError(r, resp, err)
    \/ \E r \in Requests : \E resp \in responders[r] : ResponderRedirect(r, resp)

\* Every admitted request enters the middleware, and every handler whose
\* authenticate was invoked eventually answers.
SpecWalk ==
    /\ Init
    /\ [][NextWalk]_vars
    /\ WF_vars(\E r \in Requests : Middleware(r))
    /\ WF_vars(Answer)

(* ---------------------------------------------------------------- claims *)

\* A step in which some handler calls one of the four Verify Result
\* callbacks of request r.
VerifyResultCall(r) ==
    /\ outcome'.req = r
    /\ outcome'.op \in {"success", "fail", "error", "skip"}
    /\ \E by \in Positions :
        \/ \E user \in UserArgs, auth \in AuthArgs : Success(r, by, user, auth)
        \/ \E message \in Messages : Fail(r, by, message)
        \/ \E err \in ErrArgs : Error(r, by, err)
        \/ Skip(r, by)

\* The step threw and left r's Identity, index and the pipeline alone.
Rejected(r) ==
    /\ outcome'.fault # NONE
    /\ outcome'.next = NONE
    /\ outcome'.invoked = NONE
    /\ identity'[r] = identity[r]
    /\ index'[r] = index[r]
    /\ isDone'[r] = isDone[r]
    /\ attached'[r] = attached[r]

\* fail was accepted on r's Verify Result and its handler's challenge
\* capability was given the responder that completes the walk.
FailPending(r) == ChallengeResponder("done") \in responders[r]

\* C1: for every request and every behaviour of the handlers, the walk
\* attaches the Identity and continues the pipeline never more than once,
\* and exactly once in every state where the walk is Done.
C1_AttachedExactlyOnce ==
    \A r \in Requests :
        /\ attached[r] <= 1
        /\ isDone[r] => attached[r] = 1

\* C2: once success, fail or error has been invoked on a request's Verify
\* Result, or skip has advanced past the last handler, every later call of
\* success, fail, error or skip raises a fault and changes neither the
\* Identity, the walk index, nor the pipeline.
C2_SingleUseResult ==
    [][\A r \in Requests :
          ((isDone[r] \/ FailPending(r)) /\ VerifyResultCall(r)) => Rejected(r)]_vars

\* The most recent call was `op` on request r.
After(r, op) == outcome.req = r /\ outcome.op = op

\* C3: once the walk has reached Done (done has run), any call of success,
\* fail, error or skip raises the "already done" fault and leaves the
\* Identity, the walk index and the number of pipeline continuations
\* unchanged; so does success after skip has exhausted the handler list.
C3_DoneRejectsCallbacks ==
    \A r \in Requests :
        (outcome.req = r /\ outcome.op \in {"success", "fail", "error", "skip"}
                         /\ outcome.pre.isDone)
            => /\ outcome.fault = AlreadyDone
               /\ outcome.next = NONE
               /\ outcome.invoked = NONE
               /\ Closure(r) = outcome.pre

\* success was called after skip ran off the end of the list, and faulted.
C3_Witness ==
    \E r \in Requests :
        /\ length > 0
        /\ index[r] = length
        /\ isDone[r]
        /\ After(r, "success")
        /\ outcome.fault = AlreadyDone

\* C4: whenever success(user, auth) is accepted with both arguments
\* present, the Identity holds exactly that user and auth, isAuthenticated
\* is true, scheme is the scheme of the handler at the walk position, and
\* the walk is Done with no error.
C4_SuccessRecordsIdentity ==
    \A r \in Requests :
        (After(r, "success") /\ outcome.fault = NONE)
            => /\ outcome.a1 # NONE
               /\ outcome.a2 # NONE
               /\ identity[r] = [scheme |-> HandlerAt(outcome.pre.index).scheme,
                                 user |-> outcome.a1, auth |-> outcome.a2]
               /\ isAuthenticated(identity[r])
               /\ isDone[r]
               /\ attached[r] = outcome.pre.attached + 1
               /\ index[r] = outcome.pre.index
               /\ outcome.next = "done"
               /\ outcome.err = NONE

\* Handlers [A, B]: A skipped, B succeeded, the Identity's scheme is B.
C4_Witness ==
    \E r \in Requests :
        /\ length = 2
        /\ HandlerAt(0).scheme = "A"
        /\ HandlerAt(1).scheme = "B"
        /\ After(r, "success")
        /\ outcome.fault = NONE
        /\ outcome.by = 1
        /\ identity[r] = [scheme |-> "B", user |-> "u1", auth |-> "a1"]

\* C5: success(user, auth) with user absent or auth absent raises a fault
\* and does not mutate the Identity (scheme, user, auth stay absent), does
\* not mark the walk Done and does not continue the pipeline.
C5_SuccessNeedsBoth ==
    \A r \in Requests :
        (After(r, "success") /\ (outcome.a1 = NONE \/ outcome.a2 = NONE))
            => /\ outcome.fault # NONE
               /\ outcome.next = NONE
               /\ Closure(r) = outcome.pre
               /\ ~outcome.pre.isDone
                    => /\ outcome.fault \in {UserRequired, AuthRequired}
                       /\ identity[r] = NoIdentity
                       /\ ~isDone[r]
                       /\ attached[r] = 0

\* success was called with a user and no auth while the walk was pending.
C5_Witness ==
    \E r \in Requests :
        /\ After(r, "success")
        /\ outcome.a1 \in Users
        /\ outcome.a2 = NONE
        /\ outcome.fault = AuthRequired
        /\ ~isDone[r]
        /\ identity[r] = NoIdentity

\* C6: fail(message) in Pending(i) challenges handlers[i] with that message;
\* when that handler has no challenge capability the walk becomes Done, the
\* Identity is attached and unauthenticated, and the pipeline is continued
\* with an unauthorized (401) error.
C6_FailChallengesCurrent ==
    \A r \in Requests :
        (After(r, "fail") /\ ~outcome.pre.isDone)
            => /\ outcome.fault = NONE
               /\ outcome.target = outcome.pre.index
               /\ identity[r] = NoIdentity
               /\ index[r] = outcome.pre.index
               /\ IF HandlerAt(outcome.pre.index).challenge
                    THEN /\ outcome.invoked = "challenge"
                         /\ outcome.message = outcome.a1
                         /\ outcome.parameters = NONE
                         /\ outcome.next = NONE
                    ELSE /\ outcome.invoked = NONE
                         /\ isDone[r]
                         /\ attached[r] = outcome.pre.attached + 1
                         /\ ~isAuthenticated(identity[r])
                         /\ outcome.next = "done"
                         /\ outcome.err = E401

\* One handler without a challenge capability failed with "bad token".
C6_Witness ==
    \E r \in Requests :
        /\ length = 1
        /\ ~HandlerAt(0).challenge
        /\ After(r, "fail")
        /\ outcome.a1 = "bad token"
        /\ outcome.err = E401
        /\ isDone[r]
        /\ attached[r] = 1
        /\ identity[r] = NoIdentity

\* C7: error(err) in Pending(i) moves the walk to Done, attaches an
\* unauthenticated Identity and continues the pipeline with exactly the err
\* the handler passed.
C7_ErrorPassedVerbatim ==
    \A r \in Requests :
        (After(r, "error") /\ ~outcome.pre.isDone)
            => /\ outcome.fault = NONE
               /\ isDone[r]
               /\ attached[r] = outcome.pre.attached + 1
               /\ identity[r] = NoIdentity
               /\ ~isAuthenticated(identity[r])
               /\ outcome.next = "done"
               /\ outcome.err = outcome.a1

\* A handler reported the error e1 and the pipeline was continued with it.
C7_Witness ==
    \E r \in Requests :
        /\ After(r, "error")
        /\ outcome.a1 = "e1"
        /\ outcome.err = "e1"
        /\ outcome.next = "done"
        /\ isDone[r]

\* C8: skip() in Pending(i) invokes handlers[i+1].authenticate and moves to
\* Pending(i+1) when i+1 < length; when i+1 = length it moves to Done with no
\* error and an unauthenticated Identity without invoking any handler.  The
\* handlers are consulted strictly in list order starting from index 0.
C8_SkipAdvancesInOrder ==
    \A r \in Requests :
        /\ \A k \in DOMAIN authLog[r] : authLog[r][k] = k - 1
        /\ (After(r, "skip") /\ ~outcome.pre.isDone)
             => /\ outcome.fault = NONE
                /\ index[r] = outcome.pre.index + 1
                /\ identity[r] = NoIdentity
                /\ IF outcome.pre.index + 1 < length
                     THEN /\ outcome.invoked = "authenticate"
                          /\ outcome.target = outcome.pre.index + 1
                          /\ authLog[r][Len(authLog[r])] = outcome.pre.index + 1
                          /\ ~isDone[r]
                          /\ attached[r] = outcome.pre.attached
                          /\ outcome.next = NONE
                     ELSE /\ outcome.pre.index + 1 = length
                          /\ outcome.invoked = NONE
                          /\ Len(authLog[r]) = length
                          /\ isDone[r]
                          /\ attached[r] = outcome.pre.attached + 1
                          /\ outcome.next = "done"
                          /\ outcome.err = NONE

\* Of two handlers the first skipped and the second was asked next.
C8_Witness ==
    \E r \in Requests :
        /\ length = 2
        /\ After(r, "skip")
        /\ outcome.pre.index = 0
        /\ index[r] = 1
        /\ authLog[r] = <<0, 1>>
        /\ outcome.invoked = "authenticate"
        /\ ~isDone[r]

\* C9: with an empty handler list the walk is Done immediately on the
\* request: the Identity is attached unauthenticated, the pipeline is
\* continued once with no error, and no authenticate capability is invoked.
C9_EmptyListDoneAtOnce ==
    \A r \in Requests :
        (length = 0 /\ started[r])
            => /\ isDone[r]
               /\ attached[r] = 1
               /\ identity[r] = NoIdentity
               /\ ~isAuthenticated(identity[r])
               /\ authLog[r] = << >>
               /\ After(r, "request")
                    => /\ outcome.next = "done"
                       /\ outcome.err = NONE
                       /\ outcome.invoked = NONE
                       /\ outcome.fault = NONE

\* A request went through a middleware that has no handlers.
C9_Witness ==
    \E r \in Requests :
        /\ length = 0
        /\ started[r]
        /\ After(r, "request")
        /\ outcome.next = "done"

\* The first position of the handler list that has the scheme.
IsFirstWithScheme(h, scheme) ==
    /\ h \in 0..(length - 1)
    /\ HandlerAt(h).scheme = scheme
    /\ \A k \in 0..(length - 1) : HandlerAt(k).scheme = scheme => h <= k

WantedScheme == IF outcome.a1 # NONE THEN outcome.a1 ELSE options.defaultScheme

SchemeRegistered(scheme) == \E k \in 0..(length - 1) : HandlerAt(k).scheme = scheme

\* C11: when identity.challenge resolves a scheme that no registered handler
\* has, or cannot resolve a scheme, the fault is raised to the caller: the
\* pipeline's continuation is not called, no handler challenge capability
\* is invoked, and the Identity is unchanged.
C11_ChallengeFaultsSynchronously ==
    \A r \in Requests :
        (After(r, "identity.challenge")
           /\ IF WantedScheme # NONE THEN ~SchemeRegistered(WantedScheme) ELSE length # 1)
            => /\ outcome.fault = (IF WantedScheme # NONE THEN InvalidScheme
                                   ELSE AmbiguousScheme)
               /\ outcome.next = NONE
               /\ outcome.invoked = NONE
               /\ outcome.target = -1
               /\ Closure(r) = outcome.pre

\* challenge({scheme: "X"}) was called where handlers are registered, none
\* of them for X.
C11_Witness ==
    \E r \in Requests :
        /\ length > 0
        /\ After(r, "identity.challenge")
        /\ outcome.a1 = "X"
        /\ outcome.fault = InvalidScheme

\* C12: when no default scheme is configured, the first registered handler
\* is the default: identity.challenge() without an explicit scheme
\* challenges handlers[0], however many handlers are registered.
C12_FirstHandlerIsDefault ==
    \A r \in Requests :
        (After(r, "identity.challenge")
           /\ outcome.a1 = NONE
           /\ options.defaultScheme = NONE
           /\ length > 0)
            => /\ outcome.fault = NONE
               /\ outcome.target = 0

\* C13: identity.deny() invokes the deny capability of the handler whose
\* scheme is the Identity's current scheme (the first such handler in list
\* order) when that handler exists and has the capability; in every other
\* case (no scheme on the Identity, no handler of that scheme, a handler
\* without the capability) it continues the pipeline with a 403 error and
\* invokes no handler capability.
C13_DenyBySchemeElse403 ==
    \A r \in Requests :
        After(r, "identity.deny") =>
            /\ outcome.fault = NONE
            /\ Closure(r) = outcome.pre
            /\ IF \E h \in Positions :
                    IsFirstWithScheme(h, outcome.pre.identity.scheme) /\ HandlerAt(h).deny
                 THEN /\ outcome.invoked = "deny"
                      /\ IsFirstWithScheme(outcome.target, outcome.pre.identity.scheme)
                      /\ outcome.next = NONE
                      /\ DenyResponder("next") \in responders[r]
                 ELSE /\ outcome.invoked = NONE
                      /\ outcome.next = "next"
                      /\ outcome.err = E403

\* deny() reached the deny capability of the authenticated scheme's handler.
C13_Witness ==
    \E r \in Requests :
        /\ After(r, "identity.deny")
        /\ outcome.pre.identity.scheme = "A"
        /\ outcome.invoked = "deny"

\* C14: from inside challenge and deny (the challenge that fail triggers
\* included), whatever the handler passes to the responder's send or error,
\* the continuation is never called with an absent value instead of an
\* error.
C14_ContinuesOnlyWithError ==
    (outcome.src \in {"challenge", "deny"} /\ outcome.next # NONE)
        => outcome.err # NONE

\* The listeners of a list that have the capability, and the observer list
\* (empty when the option is absent).
Listeners(list, cap) == { k \in 0..(Len(list) - 1) : list[k + 1][cap] }

ObserverList ==
    IF options.authenticationObservers.present
      THEN options.authenticationObservers.list
      ELSE << >>

\* The notifications n are exactly: every handler that has the capability,
\* in list order, then every observer that has it, in list order, each with
\* the given user and auth.
NotifiedInOrder(n, cap, user, auth) ==
    LET H == Listeners(handlers, cap)
        O == Listeners(ObserverList, cap)
    IN  /\ Len(n) = Cardinality(H) + Cardinality(O)
        /\ \A k \in DOMAIN n :
              /\ n[k].user = user
              /\ n[k].auth = auth
              /\ IF k <= Cardinality(H)
                   THEN n[k].kind = "handler" /\ n[k].pos \in H
                   ELSE n[k].kind = "observer" /\ n[k].pos \in O
        /\ \A j, k \in DOMAIN n :
              (j < k /\ n[j].kind = n[k].kind) => n[j].pos < n[k].pos

\* C15: identity.login(user, auth) leaves scheme, user, auth and
\* isAuthenticated as they were and notifies, in this order, the onLogin of
\* every handler that has one (list order) and then of every observer that
\* has one (list order), each with the request, the given user and the
\* given auth; listeners without onLogin are skipped.
C15_LoginNotifiesInOrder ==
    \A r \in Requests :
        After(r, "identity.login") =>
            /\ outcome.fault = NONE
            /\ Closure(r) = outcome.pre
            /\ isAuthenticated(identity[r]) = isAuthenticated(outcome.pre.identity)
            /\ NotifiedInOrder(outcome.notified, "onLogin", outcome.a1, outcome.a2)

\* login on an unauthenticated Identity notified two handlers and then two
\* observers.
C15_Witness ==
    \E r \in Requests :
        /\ After(r, "identity.login")
        /\ outcome.a1 = "u1"
        /\ ~isAuthenticated(identity[r])
        /\ Len(outcome.notified) = 4
        /\ outcome.notified[2].kind = "handler"
        /\ outcome.notified[3].kind = "observer"

\* C16: identity.logout() on an unauthenticated Identity invokes no
\* onLogout and changes nothing; on an authenticated one it notifies the
\* handlers' and then the observers' onLogout with the user and auth held
\* before the call, and removes scheme, user and auth together; after
\* logout the three are absent and the Identity is unauthenticated.
C16_LogoutNotifiesThenClears ==
    \A r \in Requests :
        After(r, "identity.logout") =>
            /\ outcome.fault = NONE
            /\ identity[r] = NoIdentity
            /\ identity[r].user = NONE
            /\ isDone[r] = outcome.pre.isDone
            /\ index[r] = outcome.pre.index
            /\ attached[r] = outcome.pre.attached
            /\ IF outcome.pre.identity.user = NONE
                 THEN /\ outcome.notified = << >>
                      /\ Closure(r) = outcome.pre
                 ELSE NotifiedInOrder(outcome.notified, "onLogout",
                                      outcome.pre.identity.user,
                                      outcome.pre.identity.auth)

\* logout of an authenticated Identity notified a handler and then the
\* observers with the user held before the call.
C16_Witness ==
    \E r \in Requests :
        /\ After(r, "identity.logout")
        /\ outcome.pre.identity.user = "u1"
        /\ Len(outcome.notified) = 3
        /\ outcome.notified[1].kind = "handler"
        /\ outcome.notified[1].user = "u1"
        /\ identity[r].user = NONE

\* C17: in every reachable state the Identity's scheme, user and auth are
\* all present or all absent, isAuthenticated is true exactly when user is
\* present, and all three are absent as long as the walk is not Done.
C17_IdentityAllOrNone ==
    \A r \in Requests :
        /\ \/ identity[r].scheme = NONE /\ identity[r].user = NONE /\ identity[r].auth = NONE
           \/ identity[r].scheme # NONE /\ identity[r].user # NONE /\ identity[r].auth # NONE
        /\ isAuthenticated(identity[r]) <=> identity[r].user # NONE
        /\ ~isDone[r] => identity[r] = NoIdentity

\* An authenticated Identity: the walk is Done and the three are present.
C17_Witness ==
    \E r \in Requests :
        /\ isDone[r]
        /\ isAuthenticated(identity[r])
        /\ identity[r].scheme = "B"
        /\ identity[r].auth = "a1"

\* C18: at most one handler of a request is active, and the next handler's
\* authenticate or the walk's completion is triggered only by a Verify
\* Result callback of the currently active handler, never by a handler
\* that already skipped: a callback that takes effect was invoked by the
\* handler at the walk's position.
C18_OnlyActiveHandlerAdvances ==
    \A r \in Requests :
        (outcome.req = r
           /\ outcome.op \in {"success", "fail", "error", "skip"}
           /\ outcome.fault = NONE)
            => outcome.by = outcome.pre.index

\* What the middleware keeps for one request: its Identity, done flag,
\* index, attachment and continuation count, handlers entered and
\* responders handed out.
PerRequest(r) ==
    <<started[r], identity[r], isDone[r], index[r], attached[r], authLog[r], responders[r]>>

\* C19: with requests in flight concurrently through the same middleware
\* and their callbacks interleaved, each request has its own Identity,
\* Verify Result, index and done flag: a step on one request never changes
\* another request's Identity, index, done flag or pipeline continuation,
\* and the shared handler and observer lists are never modified.
C19_RequestsIsolated ==
    [][ /\ options' = options
        /\ \A r \in Requests : outcome'.req # r => PerRequest(r)' = PerRequest(r) ]_vars

\* Both requests are in flight, at different positions of their walks: r1
\* is authenticated and Done while r2's handler has just failed and its
\* challenge is pending.
C19_Witness ==
    /\ isDone["r1"] /\ identity["r1"].user = "u1"
    /\ outcome.req = "r2" /\ outcome.op = "fail"
    /\ index["r2"] = 0 /\ ~isDone["r2"]

\* The statement as made: once a request entered the middleware and its
\* handlers answer, the walk reaches Done, a fail against a handler with a
\* challenge capability included.
C20_WalkReachesDone ==
    \A r \in Requests : started[r] ~> isDone[r]

\* C20: if every handler whose authenticate is invoked eventually invokes
\* one Verify Result callback (success with both arguments, fail, error or
\* skip), then the walk eventually reaches Done and control is handed to
\* the next pipeline stage, or the terminating callback was fail against a
\* handler that has a challenge capability and the walk waits for that
\* capability to call the responder's send or error.
C20_WalkReachesDoneOrChallenge ==
    \A r \in Requests :
        started[r] ~> (isDone[r] \/ (FailPending(r) /\ HasChallenge(index[r])))

\* After fail, the handler's challenge capability answered with a redirect:
\* the walk is not Done and nothing was handed to the next stage.
C20_Witness ==
    \E r \in Requests :
        /\ After(r, "responder.redirect")
        /\ FailPending(r)
        /\ ~isDone[r]
        /\ attached[r] = 0

\* C21: whatever Verify Result callbacks the handlers invoke, in whatever
\* order and however often (repeated skip calls of one handler included),
\* the walk's index stays within 0..length of the handler list, each
\* handler's authenticate is invoked at most once per request, and the
\* authenticate invocations occur in strictly increasing list order.
C21_IndexBoundedAuthenticateOnce ==
    \A r \in Requests :
        /\ index[r] \in 0..length
        /\ \A k \in DOMAIN authLog[r] : authLog[r][k] \in 0..(length - 1)
        /\ \A j, k \in DOMAIN authLog[r] : j < k => authLog[r][j] < authLog[r][k]
        /\ \A k \in DOMAIN authLog[r] : authLog[r][k] <= index[r]

\* The first handler skipped twice: its second skip, made while the second
\* handler was current, moved the index to the end of the list.
C21_Witness ==
    \E r \in Requests :
        /\ After(r, "skip")
        /\ outcome.fault = NONE
        /\ outcome.by = 0
        /\ outcome.pre.index = 1
        /\ index[r] = length
        /\ authLog[r] = << 0, 1 >>

\* C22: the Identity's scheme, user and auth change only through an
\* accepted success callback, which sets them, and through logout, which
\* removes them; identity.challenge, identity.deny, identity.login and the
\* fail, error and skip callbacks leave all three unchanged, and challenge
\* and deny invoked by later pipeline stages, with the responders they hand
\* out, never re-attach the Identity or alter the walk's done flag or index.
C22_IdentityFrame ==
    \A r \in Requests :
        outcome.req = r =>
            /\ identity[r] # outcome.pre.identity
                 => \/ /\ outcome.op = "success" /\ outcome.fault = NONE
                       /\ identity[r].user = outcome.a1
                       /\ identity[r].auth = outcome.a2
                       /\ identity[r].scheme # NONE
                    \/ outcome.op = "identity.logout" /\ identity[r] = NoIdentity
            /\ outcome.op \in {"identity.challenge", "identity.deny", "identity.login",
                               "fail", "error", "skip"}
                 => identity[r] = outcome.pre.identity
            /\ (outcome.op \in {"identity.challenge", "identity.deny"}
                  \/ (outcome.op \in {"responder.send", "responder.error"}
                        /\ outcome.next = "next"))
                 => Closure(r) = outcome.pre

\* A later stage challenged an authenticated request and the handler's
\* challenge capability answered through its responder: the pipeline went
\* on, the Identity is as it was and attached once.
C22_Witness ==
    \E r \in Requests :
        /\ After(r, "responder.send")
        /\ outcome.next = "next"
        /\ outcome.src = "challenge"
        /\ identity[r].user = "u1"
        /\ attached[r] = 1

====
